---- MODULE Spec2Model ----
(***************************************************************************)
(* A model of api/utils/keys/yubikey.go: provisioning, lookup and use of a *)
(* private key held in a PIV slot of a YubiKey.                            *)
(*                                                                         *)
(* The device is modelled by what the code observes of it: the readers     *)
(* piv.Cards lists, the exclusive session piv.Open grants, and per slot    *)
(* the key pair, whether the device can attest it (generated on the        *)
(* device, not imported) and the stored certificate.  Every device call    *)
(* the code makes is one step, so other users of the same token can act    *)
(* between two sessions of one call.                                       *)
(***************************************************************************)
EXTENDS Integers, Sequences, FiniteSets, TLC

\* ------------------------------------------------------------------ bounds

\* Device calls that fail (any call other than a busy piv.Open).
MaxFaults == 1
\* piv.Open attempts refused as busy while the token finishes closing a
\* previous connection.
MaxBusy == 1
\* Writes to the token made by other programs, or connections to it
\* opened by them.
MaxExt == 1
\* Two processes start provisioning requests while fewer keys than this
\* have been generated.
MaxKeys == 2
\* The slot keys parsePIVSlot is applied to run from 0 to this one.
MaxSlotKey == 255

\* --------------------------------------------------------------- constants

PIVCardTypeYubiKey == "yubikey"

certOrgName == "teleport"

\* One more attempt than the loop of open makes.
maxRetriesOneMore == 100 + 1

maxRetries == 100

pivYubiKeyPrivateKeyType == "PIV YUBIKEY PRIVATE KEY"

\* piv.Slot values of the driver library, as the code names them.
SlotAuthentication == [Key |-> 154, Name |-> "Authentication"]
SlotSignature == [Key |-> 156, Name |-> "Signature"]
SlotCardAuthentication == [Key |-> 158, Name |-> "CardAuthentication"]
SlotKeyManagement == [Key |-> 157, Name |-> "KeyManagement"]
NoSlot == [Key |-> 0, Name |-> ""]

\* piv.RetiredKeyManagementSlot: the retired slots have keys 0x82..0x95.
RetiredKeyManagementSlot(key) ==
    IF key < 130 \/ key > 149
    THEN [ok |-> FALSE, slot |-> NoSlot]
    ELSE [ok |-> TRUE, slot |-> [Key |-> key, Name |-> "RetiredKeyManagement"]]

pivSlotNoTouch == SlotAuthentication
pivSlotWithTouch == SlotSignature

TouchPolicyNever == "never"
TouchPolicyCached == "cached"

\* ------------------------------------------------------------------ errors

\* Each error the code can return: its trace kind and what produced it.
Err(kind, what) == [kind |-> kind, what |-> what]
NoErr == Err("", "")
ErrSlotEmpty == Err("NotFound", "certificate slot is empty")
ErrUnknownCert == Err("NotFound", "unknown certificate")
ErrMismatch == Err("NotFound", "mismatched certificates")
ErrUnsupportedKey == Err("BadParameter", "unsupported public key")
ErrNoSlot == Err("BadParameter", "slot does not exist")
ErrNoDevices == Err("NotFound", "no yubiKey devices found")
ErrNoSerial == Err("NotFound", "no yubiKey device with serial number")
ErrBusy == Err("Device", "other connections outstanding")
ErrJSON == Err("JSON", "unmarshal")
DeviceErr(call) == Err("Device", call)

\* -------------------------------------------------------------------- keys

Key(n) == [alg |-> "EC256", id |-> n]
NoKey == [alg |-> "", id |-> 0]
\* A key made outside this program.
ForeignKey == [alg |-> "EC256", id |-> 0]
\* A public key of a type x509 parses to a value without an Equal method.
UnsupportedKey == [alg |-> "unknown", id |-> 0]

NoCert == [present |-> FALSE, org |-> <<>>, pub |-> NoKey]
Cert(org, pub) == [present |-> TRUE, org |-> org, pub |-> pub]

EmptySlot == [key |-> NoKey, attestable |-> FALSE, touch |-> "", cert |-> NoCert]

NoYubiKey == [card |-> "", serialNumber |-> 0]
NoHandle == [yubiKey |-> NoYubiKey, pivSlot |-> NoSlot, pub |-> NoKey]

\* ----------------------------------------------------------------- readers

\* The readers piv.Cards lists, and the serial number of each token.
CardGeneric == "Generic CCID Reader 00"
CardA == "Yubico YubiKey OTP+FIDO+CCID 01"
CardB == "Yubico Yubikey CCID 02"
AllCards == <<CardGeneric, CardA, CardB>>
YubiKeys == {CardA, CardB}
SerialOf(card) == IF card = CardA THEN 12345678 ELSE 87654321

ToLower(card) ==
    CASE card = CardGeneric -> "generic ccid reader 00"
      [] card = CardA -> "yubico yubikey otp+fido+ccid 01"
      [] card = CardB -> "yubico yubikey ccid 02"
      [] OTHER -> card

Contains(s, sub) ==
    /\ sub = "yubikey"
    /\ s \in {"yubico yubikey otp+fido+ccid 01", "yubico yubikey ccid 02"}

RECURSIVE FilterYubiKeyCards(_)
FilterYubiKeyCards(cards) ==
    IF cards = <<>> THEN <<>>
    ELSE LET rest == FilterYubiKeyCards(Tail(cards))
         IN IF Contains(ToLower(Head(cards)), PIVCardTypeYubiKey)
            THEN <<Head(cards)>> \o rest
            ELSE rest

\* The slots whose content the model follows on each token: the two this
\* code generates keys in.  Every other slot stays empty.
TrackedSlots == {154, 156}

\* ------------------------------------------------- key handle descriptor

\* encoding/json writes a uint32 in decimal: the digits of n, most
\* significant first.
RECURSIVE FormatUint(_)
FormatUint(n) ==
    IF n < 10 THEN <<n>> ELSE FormatUint(n \div 10) \o <<n % 10>>

\* The value of a run of decimal digits.
RECURSIVE DigitsValue(_)
DigitsValue(ds) ==
    IF ds = <<>> THEN 0
    ELSE 10 * DigitsValue(SubSeq(ds, 1, Len(ds) - 1)) + ds[Len(ds)]

\* encoding/json reads a JSON number into a uint32 field: a non-empty run of
\* digits without a leading zero.  Values of ten or more digits are beyond
\* the integers of the model and are taken as out of range.
ParseUint(ds) ==
    IF /\ Len(ds) > 0
       /\ Len(ds) <= 9
       /\ \A k \in 1..Len(ds) : ds[k] \in 0..9
       /\ (Len(ds) > 1 => ds[1] # 0)
    THEN [ok |-> TRUE, n |-> DigitsValue(ds)]
    ELSE [ok |-> FALSE, n |-> 0]

\* A JSON text: whether it is a well-formed object, and its members in
\* order, each a name and the characters of its value.
Member(name, value) == [name |-> name, value |-> value]
Object(members) == [object |-> TRUE, members |-> members]
NotJSON == [object |-> FALSE, members |-> <<>>]

\* json.Marshal(yubiKeyPrivateKeyData{...}): the fields in declaration
\* order under their json tags.
Marshal(data) ==
    Object(<<Member("serial_number", FormatUint(data.SerialNumber)),
             Member("slot_key", FormatUint(data.SlotKey))>>)

\* The value json.Unmarshal leaves in a uint32 field: zero when no member
\* has the field's name, else the value of the last such member.
RECURSIVE DecodeField(_, _)
DecodeField(members, name) ==
    IF members = <<>> THEN [ok |-> TRUE, n |-> 0]
    ELSE LET last == members[Len(members)]
             init == SubSeq(members, 1, Len(members) - 1)
             before == DecodeField(init, name)
         IN IF last.name # name THEN before
            ELSE IF ~before.ok THEN before
            ELSE ParseUint(last.value)

\* json.Unmarshal(keyDataBytes, &keyData)
Unmarshal(bytes) ==
    LET sn == DecodeField(bytes.members, "serial_number")
        sk == DecodeField(bytes.members, "slot_key")
    IN IF bytes.object /\ sn.ok /\ sk.ok
       THEN [ok |-> TRUE, SerialNumber |-> sn.n, SlotKey |-> sk.n]
       ELSE [ok |-> FALSE, SerialNumber |-> 0, SlotKey |-> 0]

\* The two fields are written under each other's name.
keyPEMSwapped(y) ==
    [Type |-> pivYubiKeyPrivateKeyType,
     Bytes |-> Marshal([SerialNumber |-> y.pivSlot.Key,
                        SlotKey |-> y.yubiKey.serialNumber])]

\* YubiKeyPrivateKey.keyPEM: the PEM block holding the marshalled
\* (serial number, slot key) of a handle.
keyPEM(y) ==
    [Type |-> pivYubiKeyPrivateKeyType,
     Bytes |-> Marshal([SerialNumber |-> y.yubiKey.serialNumber,
                        SlotKey |-> y.pivSlot.Key])]

\* A key that names no slot is given the authentication slot.
parsePIVSlotDefault(slotKey) ==
    LET retired == RetiredKeyManagementSlot(slotKey)
    IN CASE slotKey = SlotSignature.Key -> [ok |-> TRUE, slot |-> SlotSignature]
         [] slotKey = SlotCardAuthentication.Key -> [ok |-> TRUE, slot |-> SlotCardAuthentication]
         [] slotKey = SlotKeyManagement.Key -> [ok |-> TRUE, slot |-> SlotKeyManagement]
         [] retired.ok -> retired
         [] OTHER -> [ok |-> TRUE, slot |-> SlotAuthentication]

\* parsePIVSlot, lines 364-381: the slot of a slot key, or not ok, which
\* the code returns as trace.BadParameter("slot %X does not exist").
parsePIVSlot(slotKey) ==
    CASE slotKey = SlotAuthentication.Key -> [ok |-> TRUE, slot |-> SlotAuthentication]
      [] slotKey = SlotSignature.Key -> [ok |-> TRUE, slot |-> SlotSignature]
      [] slotKey = SlotCardAuthentication.Key -> [ok |-> TRUE, slot |-> SlotCardAuthentication]
      [] slotKey = SlotKeyManagement.Key -> [ok |-> TRUE, slot |-> SlotKeyManagement]
      [] OTHER -> RetiredKeyManagementSlot(slotKey)

\* The descriptors handed to parseYubiKeyPrivateKeyData besides those
\* keyPEM wrote.
KeyDataInputs ==
    { Marshal([SerialNumber |-> 87654321, SlotKey |-> 154]),
      Marshal([SerialNumber |-> 0, SlotKey |-> 156]),
      Marshal([SerialNumber |-> 11111111, SlotKey |-> 130]),
      Marshal([SerialNumber |-> 12345678, SlotKey |-> 129]),
      Object(<<Member("slot_key", <<1, 5, 4>>)>>),
      Object(<<Member("serial_number", <<-1>>), Member("slot_key", <<1, 5, 4>>)>>),
      NotJSON }

\* ------------------------------------------------------------------- state

VARIABLES
    procs,      \* the processes that run this code
    readers,    \* the reader names piv.Cards returns
    slots,      \* per token and slot key: key pair, attestable, certificate
    sessions,   \* per process and token: connections open on the token
    extHeld,    \* the tokens another program has a connection open on
    nextKey,    \* key pairs generated on the tokens so far
    faultsLeft, \* device-call failures still to happen
    busyLeft,   \* busy refusals of a free token still to happen
    extLeft,    \* writes or connections by other programs still to happen
    clean,      \* per token and slot: the key a completed generatePrivateKey
                \* left there, while nothing has written to the slot since
    proc        \* per process: the running call, its locals and its record

vars == <<procs, readers, slots, sessions, extHeld, nextKey, faultsLeft,
          busyLeft, extLeft, clean, proc>>

\* The locals of a call and, below them, what the call has done so far.
InitProc ==
    [top |-> "", pc |-> "idle", fn |-> "",
     touchRequired |-> FALSE, keyDataBytes |-> NotJSON,
     keyData |-> [ok |-> FALSE, SerialNumber |-> 0, SlotKey |-> 0],
     serialNumber |-> 0, yubiKeyCards |-> <<>>, idx |-> 0,
     y |-> NoYubiKey, pivSlot |-> NoSlot, touchPolicy |-> "",
     i |-> 0, cert |-> NoCert, slotCert |-> NoKey, pub |-> NoKey,
     priv |-> NoHandle, err |-> NoErr, out |-> "",
     \* record of the call
     getErr |-> NoErr, verified |-> FALSE,
     nCards |-> 0, nOpen |-> 0, nGenerateKey |-> 0, nSetCertificate |-> 0,
     nAttest |-> 0, nSign |-> 0, nGenerate |-> 0,
     lookupSlot |-> 0, genSlot |-> 0, genPolicy |-> "",
     oAttempts |-> 0, oSleeps |-> 0, oBusy |-> 0, oOther |-> 0,
     faulted |-> FALSE, getFaulted |-> FALSE, genFaulted |-> FALSE,
     disturbed |-> FALSE,
     from |-> NoHandle, seen |-> EmptySlot,
     pre |-> EmptySlot, post |-> EmptySlot, cleanAtStart |-> NoKey]

ReaderLists == {AllCards, <<CardGeneric>>}

Budgets(faults, busy, ext) ==
    /\ faultsLeft = faults
    /\ busyLeft = busy
    /\ extLeft = ext

\* The processes ps are about to run, the slots of the tokens are empty.
Start(ps) ==
    /\ procs = ps
    /\ readers \in ReaderLists
    /\ slots = [c \in YubiKeys |-> [k \in TrackedSlots |-> EmptySlot]]
    /\ sessions = [p \in ps |-> [c \in YubiKeys |-> 0]]
    /\ extHeld = {}
    /\ nextKey = 0
    /\ clean = [c \in YubiKeys |-> [k \in TrackedSlots |-> NoKey]]
    /\ proc = [p \in ps |-> InitProc]

\* One process, on tokens whose calls can fail and that can be busy.
Init == Start({1}) /\ Budgets(MaxFaults, MaxBusy, 0)

\* One process and other programs writing to the token, whose calls can
\* fail.
InitExt == Start({1}) /\ Budgets(MaxFaults, 0, MaxExt)

SlotAt(sl, card, key) ==
    IF card \in YubiKeys /\ key \in TrackedSlots THEN sl[card][key] ELSE EmptySlot

Idle(p) == proc[p].pc \in {"idle", "done"}

\* ------------------------------------------------------ returns of calls

\* Lines 62-67: the slot and touch policy of a touch requirement.
SlotFor(touchRequired) ==
    IF touchRequired THEN SlotSignature ELSE SlotAuthentication

\* Every key is generated without a touch policy.
TouchPolicyNeverFor(touchRequired) == TouchPolicyNever

TouchPolicyFor(touchRequired) ==
    IF touchRequired THEN TouchPolicyCached ELSE TouchPolicyNever

\* The token findYubiKey(0) returns when no device call fails.
FirstYubiKey ==
    LET yubiKeyCards == FilterYubiKeyCards(readers)
    IN IF yubiKeyCards = <<>> THEN "" ELSE yubiKeyCards[1]

\* The slot a call is about: for a provisioning request the slot of its
\* touch requirement on the first token, else the slot of its yubiKey.
Target(r) ==
    IF r.top = "GetOrGenerateYubiKeyPrivateKey"
    THEN [card |-> FirstYubiKey, key |-> SlotFor(r.touchRequired).Key]
    ELSE [card |-> r.y.card, key |-> r.pivSlot.Key]

\* The exported call returns priv, err to its caller; sl is the token
\* content at that moment.  On success GetOrGenerateYubiKeyPrivateKey wraps
\* the handle and its keyPEM in NewPrivateKey (lines 78-83), which touches
\* no token and is not followed here.
Finish(r, priv, err, sl) ==
    [r EXCEPT !.pc = "done", !.fn = "", !.priv = priv, !.err = err,
              !.post = SlotAt(sl, Target(r).card, Target(r).key)]

\* y.open() is entered by function fn.
CallOpen(r, fn) ==
    [r EXCEPT !.fn = fn, !.pc = "open", !.i = 0,
              !.oAttempts = 0, !.oSleeps = 0, !.oBusy = 0, !.oOther = 0]

\* GetOrGenerateYubiKeyPrivateKey, line 71: what it does with the error of
\* the reuse check.
GenerateAfter(err) == err # NoErr

\* getPrivateKey has returned err (its session closed) to the exported call.
AfterGetPrivateKeyErr(r, err, sl) ==
    IF r.top = "GetOrGenerateYubiKeyPrivateKey"
    THEN IF GenerateAfter(err)
         THEN CallOpen([r EXCEPT !.getErr = err, !.nGenerate = @ + 1],
                       "generatePrivateKey")
         ELSE Finish([r EXCEPT !.getErr = err], NoHandle, err, sl)
    ELSE Finish([r EXCEPT !.getErr = err], NoHandle, err, sl)

\* A failure of generatePrivateKey makes the exported call generate again.
ReturnErrGeneratesAgain(r, err, sl) ==
    CASE r.fn = "getPrivateKey" -> AfterGetPrivateKeyErr(r, err, sl)
      [] r.fn = "generatePrivateKey" ->
            CallOpen([r EXCEPT !.nGenerate = @ + 1], "generatePrivateKey")
      [] r.fn \in {"Sign", "GetAttestationCerts"} -> Finish(r, r.priv, err, sl)
      [] OTHER -> Finish(r, NoHandle, err, sl)

\* The function r.fn returns err; every caller but the one above wraps the
\* error and returns it.
ReturnErr(r, err, sl) ==
    CASE r.fn = "getPrivateKey" -> AfterGetPrivateKeyErr(r, err, sl)
      [] r.fn \in {"Sign", "GetAttestationCerts"} -> Finish(r, r.priv, err, sl)
      [] OTHER -> Finish(r, NoHandle, err, sl)

\* The connection is left open.
CloseNothing(ss, p, card) == ss

\* defer yk.Close()
Close(ss, p, card) == [ss EXCEPT ![p][card] = @ - 1]

\* newYubiKeyPrivateKey
newYubiKeyPrivateKey(y, slot, pub) == [yubiKey |-> y, pivSlot |-> slot, pub |-> pub]

\* --------------------------------------------------------- exported calls

\* A call starts with fresh locals; the handle the process holds stays.
Enter(r, top) == [InitProc EXCEPT !.top = top, !.priv = r.priv]

\* GetOrGenerateYubiKeyPrivateKey is called: findYubiKey(0) comes first.
GetOrGenerateYubiKeyPrivateKey(p) ==
    /\ Idle(p)
    /\ \E touchRequired \in BOOLEAN :
          proc' = [proc EXCEPT ![p] =
                     [Enter(proc[p], "GetOrGenerateYubiKeyPrivateKey") EXCEPT
                        !.priv = NoHandle,
                        !.touchRequired = touchRequired,
                        !.serialNumber = 0,
                        !.pre = SlotAt(slots, FirstYubiKey, SlotFor(touchRequired).Key),
                        !.cleanAtStart =
                            IF FirstYubiKey = "" THEN NoKey
                            ELSE clean[FirstYubiKey][SlotFor(touchRequired).Key],
                        !.pc = "findYubiKey"]]
    /\ UNCHANGED <<procs, readers, extHeld, slots, sessions, nextKey, faultsLeft,
                   busyLeft, extLeft, clean>>

\* The descriptors a process can hand in: the given ones and the one
\* keyPEM writes for the handle it holds.
KeyDataOf(r) ==
    KeyDataInputs \cup (IF r.priv = NoHandle THEN {} ELSE {keyPEM(r.priv).Bytes})

\* parseYubiKeyPrivateKeyData is called: lines 110-120, up to the call of
\* findYubiKey.
parseYubiKeyPrivateKeyData(p) ==
    /\ Idle(p)
    /\ \E keyDataBytes \in KeyDataOf(proc[p]) :
          LET keyData == Unmarshal(keyDataBytes)
              parsed == parsePIVSlot(keyData.SlotKey)
              r == [Enter(proc[p], "parseYubiKeyPrivateKeyData") EXCEPT
                      !.priv = NoHandle,
                      !.from = IF keyDataBytes \in KeyDataInputs
                               THEN NoHandle ELSE proc[p].priv,
                      !.keyDataBytes = keyDataBytes,
                      !.keyData = keyData]
          IN proc' = [proc EXCEPT ![p] =
                 IF ~keyData.ok THEN Finish(r, NoHandle, ErrJSON, slots)
                 ELSE IF ~parsed.ok THEN Finish(r, NoHandle, ErrNoSlot, slots)
                 ELSE [r EXCEPT !.pivSlot = parsed.slot,
                                !.serialNumber = keyData.SerialNumber,
                                !.pc = "findYubiKey"]]
    /\ UNCHANGED <<procs, readers, extHeld, slots, sessions, nextKey, faultsLeft,
                   busyLeft, extLeft, clean>>

\* Sign goes to the device without opening a connection.
SignWithoutOpen(p) ==
    /\ Idle(p)
    /\ proc[p].priv # NoHandle
    /\ proc' = [proc EXCEPT ![p] =
                  [Enter(proc[p], "Sign") EXCEPT
                     !.y = proc[p].priv.yubiKey,
                     !.pivSlot = proc[p].priv.pivSlot,
                     !.fn = "Sign", !.pc = "SignDigest"]]
    /\ UNCHANGED <<procs, readers, extHeld, slots, sessions, nextKey, faultsLeft,
                   busyLeft, extLeft, clean>>

\* Public, lines 134-136: returns the public key of the handle the process
\* holds.
Public(p) ==
    /\ Idle(p)
    /\ proc[p].priv # NoHandle
    /\ proc' = [proc EXCEPT ![p] =
                  Finish([Enter(proc[p], "Public") EXCEPT
                            !.y = proc[p].priv.yubiKey,
                            !.pivSlot = proc[p].priv.pivSlot,
                            !.pub = proc[p].priv.pub],
                         proc[p].priv, NoErr, slots)]
    /\ UNCHANGED <<procs, readers, extHeld, slots, sessions, nextKey, faultsLeft,
                   busyLeft, extLeft, clean>>

\* Sign is called on the handle the process holds: y.open() comes first.
Sign(p) ==
    /\ Idle(p)
    /\ proc[p].priv # NoHandle
    /\ proc' = [proc EXCEPT ![p] =
                  CallOpen([Enter(proc[p], "Sign") EXCEPT
                              !.y = proc[p].priv.yubiKey,
                              !.pivSlot = proc[p].priv.pivSlot], "Sign")]
    /\ UNCHANGED <<procs, readers, extHeld, slots, sessions, nextKey, faultsLeft,
                   busyLeft, extLeft, clean>>

\* GetAttestationCerts is called on the handle the process holds.
GetAttestationCerts(p) ==
    /\ Idle(p)
    /\ proc[p].priv # NoHandle
    /\ proc' = [proc EXCEPT ![p] =
                  CallOpen([Enter(proc[p], "GetAttestationCerts") EXCEPT
                              !.y = proc[p].priv.yubiKey,
                              !.pivSlot = proc[p].priv.pivSlot],
                           "GetAttestationCerts")]
    /\ UNCHANGED <<procs, readers, extHeld, slots, sessions, nextKey, faultsLeft,
                   busyLeft, extLeft, clean>>

\* -------------------------------------------------------------- device I/O

\* A device call succeeds, or fails while failures are left to happen.
DeviceCall(ok) ==
    /\ ok \/ faultsLeft > 0
    /\ faultsLeft' = IF ok THEN faultsLeft ELSE faultsLeft - 1

\* A device call of the function r.fn has failed.
Failed(r) ==
    [r EXCEPT !.faulted = TRUE,
              !.getFaulted = @ \/ r.fn = "getPrivateKey",
              !.genFaulted = @ \/ r.fn = "generatePrivateKey"]

\* A device call has answered: ok, or not.
Answered(r, ok) == IF ok THEN r ELSE Failed(r)

\* findYubiKeyCards
findYubiKeyCards(cards) == FilterYubiKeyCards(cards)

\* findYubiKey, lines 324-334: list the cards and call newYubiKey on the
\* first one.
findYubiKey(p) ==
    /\ proc[p].pc = "findYubiKey"
    /\ \E ok \in BOOLEAN :
          /\ DeviceCall(ok)
          /\ LET r == Answered([proc[p] EXCEPT !.nCards = @ + 1], ok)
                 yubiKeyCards == findYubiKeyCards(readers)
             IN proc' = [proc EXCEPT ![p] =
                  IF ~ok THEN Finish(r, NoHandle, DeviceErr("Cards"), slots)
                  ELSE IF Len(yubiKeyCards) = 0
                  THEN Finish(r, NoHandle, ErrNoDevices, slots)
                  ELSE CallOpen([r EXCEPT !.yubiKeyCards = yubiKeyCards,
                                          !.idx = 1,
                                          !.y = [card |-> yubiKeyCards[1],
                                                 serialNumber |-> 0]],
                                "newYubiKey")]
    /\ UNCHANGED <<procs, readers, extHeld, slots, sessions, nextKey, busyLeft,
                   extLeft, clean>>

\* Every failure of piv.Open is retried.
isRetryErrorAlways(err) == TRUE

\* open, lines 299-302
isRetryError(err) == err = ErrBusy

\* A function that has a connection asks for another one.
AfterOpenAgain(fn) == "open"

\* getPrivateKey goes on to generate a key once it has its connection.
AfterOpenGenerates(fn) ==
    CASE fn = "newYubiKey" -> "Serial"
      [] fn = "getPrivateKey" -> "GenerateKey"
      [] fn = "generatePrivateKey" -> "GenerateKey"
      [] fn = "Sign" -> "SignDigest"
      [] fn = "GetAttestationCerts" -> "Attest"

\* Where a function goes on once y.open() has returned a connection.
AfterOpen(fn) ==
    CASE fn = "newYubiKey" -> "Serial"
      [] fn = "getPrivateKey" -> "Certificate"
      [] fn = "generatePrivateKey" -> "GenerateKey"
      [] fn = "Sign" -> "SignDigest"
      [] fn = "GetAttestationCerts" -> "Attest"

\* The token gives a connection to whoever asks.
OutstandingNever(card) == FALSE

\* A connection is outstanding on the card.
Outstanding(card) ==
    card \in extHeld \/ \E q \in procs : sessions[q][card] > 0

\* One turn of the loop of open, lines 305-316, and the return after the
\* loop, line 318: piv.Open answers with a connection, with the busy error
\* (always when a connection is outstanding) or with another error.
open(p) ==
    /\ proc[p].pc = "open"
    /\ \E err \in {NoErr, ErrBusy, DeviceErr("Open")} :
          LET r0 == proc[p]
              card == r0.y.card
              r == [r0 EXCEPT !.nOpen = @ + (IF err = NoErr THEN 1 ELSE 0),
                              !.oAttempts = @ + 1,
                              !.oBusy = @ + (IF err = ErrBusy THEN 1 ELSE 0),
                              !.oOther = @ + (IF err \notin {NoErr, ErrBusy} THEN 1 ELSE 0)]
          IN /\ err = NoErr => ~Outstanding(card)
             /\ err = ErrBusy => Outstanding(card) \/ busyLeft > 0
             /\ busyLeft' = IF err = ErrBusy /\ ~Outstanding(card)
                            THEN busyLeft - 1 ELSE busyLeft
             /\ DeviceCall(err \in {NoErr, ErrBusy})
             /\ IF err = NoErr
                THEN /\ sessions' = [sessions EXCEPT ![p][card] = @ + 1]
                     /\ proc' = [proc EXCEPT ![p] =
                                   [r EXCEPT !.pc = AfterOpen(r.fn), !.i = 0,
                                             !.oAttempts = 0, !.oSleeps = 0,
                                             !.oBusy = 0]]
                ELSE /\ UNCHANGED sessions
                     /\ proc' = [proc EXCEPT ![p] =
                          IF ~isRetryError(err)
                          THEN ReturnErr(Failed(r), err, slots)
                          ELSE IF r.i + 1 < maxRetries
                          THEN [r EXCEPT !.i = @ + 1, !.oSleeps = @ + 1]
                          ELSE ReturnErr(Failed([r EXCEPT !.i = @ + 1,
                                                          !.oSleeps = @ + 1]),
                                         err, slots)]
    /\ UNCHANGED <<procs, readers, extHeld, slots, nextKey, extLeft, clean>>

\* findYubiKey has the yubiKey y: line 339, 341 and 344, and what the
\* exported call does with the yubiKey found.
FoundOrNext(r, y, sl) ==
    IF r.serialNumber = 0 \/ y.serialNumber = r.serialNumber
    THEN IF r.top = "GetOrGenerateYubiKeyPrivateKey"
         THEN CallOpen([r EXCEPT !.y = y,
                                 !.pivSlot = SlotFor(r.touchRequired),
                                 !.touchPolicy = TouchPolicyFor(r.touchRequired)],
                       "getPrivateKey")
         ELSE CallOpen([r EXCEPT !.y = y], "getPrivateKey")
    ELSE IF r.idx < Len(r.yubiKeyCards)
    THEN CallOpen([r EXCEPT !.idx = @ + 1,
                            !.y = [card |-> r.yubiKeyCards[r.idx + 1],
                                   serialNumber |-> 0]],
                  "newYubiKey")
    ELSE Finish(r, NoHandle, ErrNoSerial, sl)

\* newYubiKey, lines 207-214: read the serial number and close.
newYubiKey(p) ==
    /\ proc[p].pc = "Serial"
    /\ \E ok \in BOOLEAN :
          /\ DeviceCall(ok)
          /\ LET r == Answered(proc[p], ok)
                 y == [card |-> r.y.card, serialNumber |-> SerialOf(r.y.card)]
             IN proc' = [proc EXCEPT ![p] =
                  IF ~ok THEN ReturnErr(r, DeviceErr("Serial"), slots)
                  ELSE FoundOrNext(r, y, slots)]
    /\ sessions' = Close(sessions, p, proc[p].y.card)
    /\ UNCHANGED <<procs, readers, extHeld, slots, nextKey, busyLeft, extLeft, clean>>

\* ------------------------------------------------------------ getPrivateKey

\* Any entry of the organization may be the Teleport name.
IsTeleportClientCertAnyEntry(cert) ==
    \E n \in 1..Len(cert.org) : cert.org[n] = certOrgName

\* Line 267: the stored certificate is a Teleport client certificate.
IsTeleportClientCert(cert) ==
    ~(Len(cert.org) = 0 \/ cert.org[1] # certOrgName)

\* Line 286: the certificate's public key has an Equal method.
HasEqual(pub) == pub.alg # "unknown"

\* Only the types of the two keys are compared.
EqualKeyType(pub, x) == pub.alg = x.alg

\* Line 288: pubComparer.Equal(slotCert.PublicKey)
Equal(pub, x) == pub = x

\* getPrivateKey, lines 264-269: read the slot's certificate and look for
\* the Teleport organization.
getPrivateKey_Certificate(p) ==
    /\ proc[p].pc = "Certificate"
    /\ \E ok \in BOOLEAN :
          /\ DeviceCall(ok)
          /\ LET card == proc[p].y.card
                 cert == SlotAt(slots, card, proc[p].pivSlot.Key).cert
                 r == Answered([proc[p] EXCEPT
                                  !.seen = SlotAt(slots, card, proc[p].pivSlot.Key),
                                  !.lookupSlot = proc[p].pivSlot.Key], ok)
             IN IF ~ok \/ ~cert.present
                THEN /\ sessions' = Close(sessions, p, card)
                     /\ proc' = [proc EXCEPT ![p] = ReturnErr(r, ErrSlotEmpty, slots)]
                ELSE IF ~IsTeleportClientCert(cert)
                THEN /\ sessions' = Close(sessions, p, card)
                     /\ proc' = [proc EXCEPT ![p] = ReturnErr(r, ErrUnknownCert, slots)]
                ELSE /\ UNCHANGED sessions
                     /\ proc' = [proc EXCEPT ![p] =
                                   [r EXCEPT !.cert = cert, !.pc = "Attest"]]
    /\ UNCHANGED <<procs, readers, extHeld, slots, nextKey, busyLeft, extLeft, clean>>

\* getPrivateKey, lines 272-275: the device attests the key of the slot
\* when it generated that key itself.
getPrivateKey_Attest(p) ==
    /\ proc[p].pc = "Attest" /\ proc[p].fn = "getPrivateKey"
    /\ \E ok \in BOOLEAN :
          /\ DeviceCall(ok)
          /\ LET r == Answered([proc[p] EXCEPT !.nAttest = @ + 1], ok)
                 card == r.y.card
                 slot == SlotAt(slots, card, r.pivSlot.Key)
             IN IF ~ok \/ ~slot.attestable
                THEN /\ sessions' = Close(sessions, p, card)
                     /\ proc' = [proc EXCEPT ![p] =
                                   ReturnErr(r, DeviceErr("Attest"), slots)]
                ELSE /\ UNCHANGED sessions
                     /\ proc' = [proc EXCEPT ![p] =
                                   [r EXCEPT !.slotCert = slot.key,
                                             !.pc = "AttestationCertificate"]]
    /\ UNCHANGED <<procs, readers, extHeld, slots, nextKey, busyLeft, extLeft, clean>>

\* The handle is made from the certificate's key without the comparison.
ComparePublicKeysSkipped(r) ==
    [err |-> NoErr, priv |-> newYubiKeyPrivateKey(r.y, r.pivSlot, r.cert.pub)]

\* Lines 286-292: compare the public keys and make the handle.
ComparePublicKeys(r) ==
    IF ~HasEqual(r.cert.pub) THEN [err |-> ErrUnsupportedKey, priv |-> NoHandle]
    ELSE IF ~Equal(r.cert.pub, r.slotCert) THEN [err |-> ErrMismatch, priv |-> NoHandle]
    ELSE [err |-> NoErr, priv |-> newYubiKeyPrivateKey(r.y, r.pivSlot, r.slotCert)]

\* getPrivateKey, lines 276-292: fetch the device's attestation
\* certificate, verify the slot's attestation with it, compare the keys,
\* close and return; on success the exported call returns the handle
\* (lines 78-83, 130).
getPrivateKey_Verify(p) ==
    /\ proc[p].pc = "AttestationCertificate"
    /\ proc[p].fn = "getPrivateKey"
    /\ \E failed \in {"", "AttestationCertificate", "Verify"} :
          /\ DeviceCall(failed = "")
          /\ LET r == Answered(proc[p], failed = "")
                 res == ComparePublicKeys(r)
             IN proc' = [proc EXCEPT ![p] =
                  IF failed # "" THEN ReturnErr(r, DeviceErr(failed), slots)
                  ELSE IF res.err # NoErr
                  THEN ReturnErr([r EXCEPT !.verified = TRUE], res.err, slots)
                  ELSE Finish([r EXCEPT !.verified = TRUE], res.priv, NoErr, slots)]
    /\ sessions' = Close(sessions, p, proc[p].y.card)
    /\ UNCHANGED <<procs, readers, extHeld, slots, nextKey, busyLeft, extLeft, clean>>

\* ------------------------------------------------------- generatePrivateKey

\* The certificate under another organization name.
selfSignedOtherOrganization(pub) == Cert(<<"tsh">>, pub)

selfSignedTeleportClientCertificate(pub) == Cert(<<certOrgName>>, pub)

\* generatePrivateKey, lines 225-233: the device makes a new key pair in
\* the slot; the stored certificate stays as it is.
generatePrivateKey_GenerateKey(p) ==
    /\ proc[p].pc = "GenerateKey"
    /\ \E ok \in BOOLEAN :
          /\ DeviceCall(ok)
          /\ LET r == Answered(proc[p], ok)
                 card == r.y.card
                 k == r.pivSlot.Key
                 pub == Key(nextKey + 1)
             IN IF ~ok
                THEN /\ sessions' = Close(sessions, p, card)
                     /\ proc' = [proc EXCEPT ![p] =
                                   ReturnErr(r, DeviceErr("GenerateKey"), slots)]
                     /\ UNCHANGED <<slots, nextKey, clean>>
                ELSE /\ slots' = [slots EXCEPT ![card][k] =
                                    [@ EXCEPT !.key = pub,
                                              !.attestable = TRUE,
                                              !.touch = r.touchPolicy]]
                     /\ nextKey' = nextKey + 1
                     /\ clean' = [clean EXCEPT ![card][k] = NoKey]
                     /\ UNCHANGED sessions
                     /\ proc' = [proc EXCEPT ![p] =
                                   [r EXCEPT !.pub = pub,
                                             !.nGenerateKey = @ + 1,
                                             !.genSlot = k,
                                             !.genPolicy = slots'[card][k].touch,
                                             !.pc = "CreateCertificate"]]
    /\ UNCHANGED <<procs, readers, extHeld, busyLeft, extLeft>>

\* generatePrivateKey, lines 237-245: the private key object and the
\* self-signed certificate, signed on the device.
generatePrivateKey_Certificate(p) ==
    /\ proc[p].pc = "CreateCertificate"
    /\ \E ok \in BOOLEAN :
          /\ DeviceCall(ok)
          /\ LET r == Answered(proc[p], ok)
             IN IF ~ok
                THEN /\ sessions' = Close(sessions, p, r.y.card)
                     /\ proc' = [proc EXCEPT ![p] =
                                   ReturnErr(r, DeviceErr("CreateCertificate"), slots)]
                ELSE /\ UNCHANGED sessions
                     /\ proc' = [proc EXCEPT ![p] =
                                   [r EXCEPT !.cert = selfSignedTeleportClientCertificate(r.pub),
                                             !.pc = "SetCertificate"]]
    /\ UNCHANGED <<procs, readers, extHeld, slots, nextKey, busyLeft, extLeft, clean>>

\* The certificate is not stored.
StoreNoCertificate(sl, card, k, cert) == sl

\* Line 248: yk.SetCertificate(piv.DefaultManagementKey, slot, cert)
StoreCertificate(sl, card, k, cert) ==
    [sl EXCEPT ![card][k] = [@ EXCEPT !.cert = cert]]

\* generatePrivateKey, lines 248-252: store the certificate, close and
\* return the handle, which the exported call returns (lines 78-83).
generatePrivateKey_SetCertificate(p) ==
    /\ proc[p].pc = "SetCertificate"
    /\ \E ok \in BOOLEAN :
          /\ DeviceCall(ok)
          /\ LET r == Answered(proc[p], ok)
                 card == r.y.card
                 k == r.pivSlot.Key
                 sl == StoreCertificate(slots, card, k, r.cert)
             IN IF ~ok
                THEN /\ proc' = [proc EXCEPT ![p] =
                                   ReturnErr(r, DeviceErr("SetCertificate"), slots)]
                     /\ UNCHANGED <<slots, clean>>
                ELSE /\ slots' = sl
                     /\ clean' = [clean EXCEPT ![card][k] = r.pub]
                     /\ proc' = [proc EXCEPT ![p] =
                                   Finish([r EXCEPT !.nSetCertificate = @ + 1],
                                          newYubiKeyPrivateKey(r.y, r.pivSlot, r.pub),
                                          NoErr, sl)]
    /\ sessions' = Close(sessions, p, proc[p].y.card)
    /\ UNCHANGED <<procs, readers, extHeld, nextKey, busyLeft, extLeft>>

\* ------------------------------------------ Sign and GetAttestationCerts

\* Sign, lines 144-151: the device signs with the key of the slot; close.
Sign_Digest(p) ==
    /\ proc[p].pc = "SignDigest"
    /\ \E ok \in BOOLEAN :
          /\ DeviceCall(ok)
          /\ LET r == Answered([proc[p] EXCEPT !.nSign = @ + 1], ok)
                 slot == SlotAt(slots, r.y.card, r.pivSlot.Key)
             IN proc' = [proc EXCEPT ![p] =
                  IF ~ok \/ slot.key = NoKey
                  THEN ReturnErr(r, DeviceErr("Sign"), slots)
                  ELSE Finish([r EXCEPT !.out = "signature"], r.priv, NoErr, slots)]
    /\ sessions' = Close(sessions, p, proc[p].y.card)
    /\ UNCHANGED <<procs, readers, extHeld, slots, nextKey, busyLeft, extLeft, clean>>

\* GetAttestationCerts, lines 176-181
GetAttestationCerts_Attest(p) ==
    /\ proc[p].pc = "Attest" /\ proc[p].fn = "GetAttestationCerts"
    /\ \E ok \in BOOLEAN :
          /\ DeviceCall(ok)
          /\ LET r == Answered([proc[p] EXCEPT !.nAttest = @ + 1], ok)
                 card == r.y.card
                 slot == SlotAt(slots, card, r.pivSlot.Key)
             IN IF ~ok \/ ~slot.attestable
                THEN /\ sessions' = Close(sessions, p, card)
                     /\ proc' = [proc EXCEPT ![p] =
                                   ReturnErr(r, DeviceErr("Attest"), slots)]
                ELSE /\ UNCHANGED sessions
                     /\ proc' = [proc EXCEPT ![p] =
                                   [r EXCEPT !.slotCert = slot.key,
                                             !.pc = "AttestationCertificate"]]
    /\ UNCHANGED <<procs, readers, extHeld, slots, nextKey, busyLeft, extLeft, clean>>

\* GetAttestationCerts, lines 183-188
GetAttestationCerts_AttestationCertificate(p) ==
    /\ proc[p].pc = "AttestationCertificate"
    /\ proc[p].fn = "GetAttestationCerts"
    /\ \E ok \in BOOLEAN :
          /\ DeviceCall(ok)
          /\ LET r == Answered(proc[p], ok)
             IN proc' = [proc EXCEPT ![p] =
                  IF ~ok THEN ReturnErr(r, DeviceErr("AttestationCertificate"), slots)
                  ELSE Finish([r EXCEPT !.out = "certs"], r.priv, NoErr, slots)]
    /\ sessions' = Close(sessions, p, proc[p].y.card)
    /\ UNCHANGED <<procs, readers, extHeld, slots, nextKey, busyLeft, extLeft, clean>>

\* ------------------------------------------------------- other programs

\* What another program can leave in a slot that holds `slot`: a key it
\* imported with its own certificate, the same under a forged Teleport
\* organization, the stored certificate with another public key or one of
\* an unsupported type, a certificate naming no organization, or none.
ExtContents(slot) ==
    { [slot EXCEPT !.key = ForeignKey, !.attestable = FALSE,
                   !.cert = Cert(<<"acme", certOrgName>>, ForeignKey)],
      [slot EXCEPT !.key = ForeignKey, !.attestable = FALSE,
                   !.cert = Cert(<<certOrgName>>, ForeignKey)],
      [slot EXCEPT !.cert = Cert(<<>>, slot.key)],
      [slot EXCEPT !.cert = NoCert] }
    \cup (IF slot.cert.present
          THEN { [slot EXCEPT !.cert = [@ EXCEPT !.pub = ForeignKey]],
                 [slot EXCEPT !.cert = [@ EXCEPT !.pub = UnsupportedKey]] }
          ELSE {})

\* The slot other programs write to: slot 9a of the first token.
ExtCards == {CardA}
ExtSlots == {SlotAuthentication.Key}

\* Another program writes to a slot of a token while no connection of this
\* code is outstanding on it.  A call under way has been disturbed.
ExtWrite ==
    /\ extLeft > 0
    /\ extLeft' = extLeft - 1
    /\ \E card \in ExtCards, k \in ExtSlots :
          /\ ~Outstanding(card)
          /\ \E new \in ExtContents(slots[card][k]) \ {slots[card][k]} :
                slots' = [slots EXCEPT ![card][k] = new]
          /\ clean' = [clean EXCEPT ![card][k] = NoKey]
    /\ proc' = [p \in procs |->
                  IF Idle(p) THEN proc[p] ELSE [proc[p] EXCEPT !.disturbed = TRUE]]
    /\ UNCHANGED <<procs, readers, extHeld, sessions, nextKey, faultsLeft, busyLeft>>

\* Another program opens a connection to a token no connection is
\* outstanding on, and keeps it.
ExtOpen ==
    /\ extLeft > 0
    /\ extLeft' = extLeft - 1
    /\ \E card \in ExtCards :
          /\ ~Outstanding(card)
          /\ extHeld' = extHeld \cup {card}
    /\ UNCHANGED <<procs, readers, slots, sessions, nextKey, faultsLeft,
                   busyLeft, clean, proc>>

\* The other program closes its connection.
ExtClose ==
    /\ \E card \in extHeld : extHeld' = extHeld \ {card}
    /\ UNCHANGED <<procs, readers, slots, sessions, nextKey, faultsLeft,
                   busyLeft, extLeft, clean, proc>>

\* ------------------------------------------------------------ parsePIVSlot

\* The slot keys handed to parsePIVSlot: every small one, and keys beyond
\* one byte whose low byte is the key of a slot.
SlotKeys == (0..MaxSlotKey) \cup {65690, 33554562, 2147483647}

\* parsePIVSlot is called with a slot key and returns.
parsePIVSlot_Call(p) ==
    /\ Idle(p)
    /\ \E slotKey \in SlotKeys :
          LET parsed == parsePIVSlot(slotKey)
              r == [Enter(proc[p], "parsePIVSlot") EXCEPT
                      !.priv = NoHandle,
                      !.keyData = [ok |-> TRUE, SerialNumber |-> 0,
                                   SlotKey |-> slotKey],
                      !.pivSlot = parsed.slot]
          IN proc' = [proc EXCEPT ![p] =
                        Finish(r, NoHandle,
                               IF parsed.ok THEN NoErr ELSE ErrNoSlot, slots)]
    /\ UNCHANGED <<procs, readers, extHeld, slots, sessions, nextKey, faultsLeft,
                   busyLeft, extLeft, clean>>

\* ------------------------------------------------------------ specification

NextCode ==
    \/ \E p \in procs : GetOrGenerateYubiKeyPrivateKey(p)
    \/ \E p \in procs : parseYubiKeyPrivateKeyData(p)
    \/ \E p \in procs : Sign(p)
    \/ \E p \in procs : Public(p)
    \/ \E p \in procs : GetAttestationCerts(p)
    \/ \E p \in procs : findYubiKey(p)
    \/ \E p \in procs : open(p)
    \/ \E p \in procs : newYubiKey(p)
    \/ \E p \in procs : getPrivateKey_Certificate(p)
    \/ \E p \in procs : getPrivateKey_Attest(p)
    \/ \E p \in procs : getPrivateKey_Verify(p)
    \/ \E p \in procs : generatePrivateKey_GenerateKey(p)
    \/ \E p \in procs : generatePrivateKey_Certificate(p)
    \/ \E p \in procs : generatePrivateKey_SetCertificate(p)
    \/ \E p \in procs : Sign_Digest(p)
    \/ \E p \in procs : GetAttestationCerts_Attest(p)
    \/ \E p \in procs : GetAttestationCerts_AttestationCertificate(p)

Next == NextCode \/ ExtWrite

\* The code alone on a token that can fail and be busy.
Spec == Init /\ [][NextCode]_vars

\* The code and other programs writing to the token.
SpecExt == InitExt /\ [][Next]_vars

\* The code and another program that opens connections to the token and
\* keeps them as long as it likes.  A process that is in the loop of open
\* goes on with it.
InitBusy == Start({1}) /\ Budgets(0, 0, MaxExt)
NextBusy == NextCode \/ ExtOpen \/ ExtClose
SpecBusy == InitBusy /\ [][NextBusy]_vars /\ WF_vars(open(1))

\* Two processes make provisioning requests on the same tokens, any two
\* steps of theirs in any order.
InitRace == Start({1, 2}) /\ Budgets(0, 0, 0)
NextRace ==
    \/ \E p \in procs : nextKey < MaxKeys /\ GetOrGenerateYubiKeyPrivateKey(p)
    \/ \E p \in procs : findYubiKey(p)
    \/ \E p \in procs : open(p)
    \/ \E p \in procs : newYubiKey(p)
    \/ \E p \in procs : getPrivateKey_Certificate(p)
    \/ \E p \in procs : getPrivateKey_Attest(p)
    \/ \E p \in procs : getPrivateKey_Verify(p)
    \/ \E p \in procs : generatePrivateKey_GenerateKey(p)
    \/ \E p \in procs : generatePrivateKey_Certificate(p)
    \/ \E p \in procs : generatePrivateKey_SetCertificate(p)
SpecRace == InitRace /\ [][NextRace]_vars

\* One process on a token on which one more device call can fail: a failed
\* reuse check and a failed generation can follow each other.
InitPartial == Start({1}) /\ Budgets(MaxFaults + 1, 0, 0)
SpecPartial == InitPartial /\ [][NextCode]_vars

\* parsePIVSlot alone, on every slot key.
InitSlot == Start({1}) /\ Budgets(0, 0, 0)
NextSlot == \E p \in procs : parsePIVSlot_Call(p)
SpecSlot == InitSlot /\ [][NextSlot]_vars

\* -------------------------------------------------------------- properties

Provisioning(r) == r.top = "GetOrGenerateYubiKeyPrivateKey"
Decoding(r) == r.top = "parseYubiKeyPrivateKeyData"
Returned(r) == r.pc = "done"

\* The certificate carries the marker: its first organization is "teleport".
HasMarker(cert) ==
    cert.present /\ Len(cert.org) > 0 /\ cert.org[1] = "teleport"

\* C1: when the reuse check of a provisioning request fails with anything
\* but "slot empty" or "unknown certificate", the request returns that
\* error and generatePrivateKey is not invoked: no GenerateKey, no
\* SetCertificate.
C1_FatalReuseErrorStopsProvisioning ==
    \A p \in procs :
        LET r == proc[p]
        IN (Provisioning(r) /\ r.getErr \notin {NoErr, ErrSlotEmpty, ErrUnknownCert})
           => /\ r.fn # "generatePrivateKey"
              /\ r.nGenerateKey = 0
              /\ r.nSetCertificate = 0
              /\ Returned(r) => r.err = r.getErr

\* C2: a provisioning request against a slot whose stored certificate has
\* an organization other than "teleport" fails, and leaves the slot's key
\* pair and certificate as they were (no device call failing, nobody else
\* writing to the slot meanwhile).
C2_ForeignSlotNotOverwritten ==
    \A p \in procs :
        LET r == proc[p]
        IN (/\ Provisioning(r) /\ Returned(r)
            /\ r.pre.cert.present /\ ~HasMarker(r.pre.cert)
            /\ ~r.faulted /\ ~r.disturbed)
           => r.err # NoErr /\ r.priv = NoHandle /\ r.post = r.pre

\* C3: once a provisioning request has generated the key of a slot, a later
\* request with the same touch requirement, with no write to the slot by
\* others in between and no device failure, returns the same public key
\* through getPrivateKey, with no GenerateKey and no SetCertificate.
C3_IdempotentProvisioning ==
    \A p \in procs :
        LET r == proc[p]
        IN (/\ Provisioning(r) /\ Returned(r)
            /\ r.cleanAtStart # NoKey
            /\ ~r.faulted /\ ~r.disturbed)
           => /\ r.err = NoErr
              /\ r.priv.pub = r.cleanAtStart
              /\ r.verified /\ r.getErr = NoErr
              /\ r.nGenerateKey = 0
              /\ r.nSetCertificate = 0

C3_Witness ==
    \E p \in procs :
        LET r == proc[p]
        IN /\ Provisioning(r) /\ Returned(r)
           /\ r.cleanAtStart # NoKey
           /\ ~r.faulted /\ ~r.disturbed
           /\ r.priv.pub = r.cleanAtStart
           /\ r.nGenerateKey = 0

\* C4: in a provisioning request the reuse check has run, and failed,
\* before any step of generation; a request that generated returns success
\* only after SetCertificate; and when a handle is returned the handle's
\* slot holds a certificate whose organization is "teleport".
C4_VerifyThenGenerateThenMarker ==
    \A p \in procs :
        LET r == proc[p]
        IN Provisioning(r)
           => /\ (r.fn = "generatePrivateKey" \/ r.nGenerateKey > 0
                    \/ r.nSetCertificate > 0)
                 => r.getErr # NoErr
              /\ (Returned(r) /\ r.priv # NoHandle)
                 => /\ r.verified \/ r.getErr # NoErr
                    /\ r.nGenerateKey > 0 => r.nSetCertificate = 1
                    /\ r.priv.yubiKey.card = Target(r).card
                    /\ r.priv.pivSlot.Key = Target(r).key
                    /\ HasMarker(r.post.cert)

C4_Witness ==
    \E p \in procs :
        LET r == proc[p]
        IN /\ Provisioning(r) /\ Returned(r) /\ r.priv # NoHandle
           /\ r.getErr # NoErr
           /\ r.nGenerateKey = 1 /\ r.nSetCertificate = 1
           /\ HasMarker(r.post.cert)

\* C5: a decoded descriptor yields a handle bound to the token whose serial
\* number is the descriptor's serial_number and to the slot whose key is
\* its slot_key, or the decoding fails.
C5_DecodedHandleIsTheDescribedToken ==
    \A p \in procs :
        LET r == proc[p]
        IN (Decoding(r) /\ Returned(r) /\ r.priv # NoHandle)
           => /\ r.priv.yubiKey.serialNumber = r.keyData.SerialNumber
              /\ r.priv.pivSlot.Key = r.keyData.SlotKey

\* C6: a failure of piv.Open other than the busy one ends open at once: it
\* is the last attempt of the call, and open has slept once per busy
\* failure before it and not after it.
C6_OnlyBusyIsRetried ==
    \A p \in procs :
        LET r == proc[p]
        IN r.oOther > 0
           => /\ r.pc # "open"
              /\ r.oOther = 1
              /\ r.oAttempts = r.oBusy + 1
              /\ r.oSleeps = r.oBusy
              /\ r.i = r.oBusy
              /\ Returned(r) /\ r.err = DeviceErr("Open")

C6_Witness ==
    \E p \in procs :
        LET r == proc[p]
        IN r.oOther = 1 /\ r.oBusy >= 1 /\ r.oSleeps = r.oBusy /\ Returned(r)

\* C7: a process holds no connection when no function that opens one is
\* running: before, between and after newYubiKey, getPrivateKey,
\* generatePrivateKey, Sign and GetAttestationCerts, however they returned.
C7_EveryOpenIsClosed ==
    \A p \in procs : \A card \in YubiKeys :
        proc[p].pc \in {"idle", "findYubiKey", "open", "done"}
           => sessions[p][card] = 0

C7_Witness ==
    \E p \in procs :
        LET r == proc[p]
        IN /\ Returned(r) /\ r.nOpen >= 3
           /\ r.err = DeviceErr("SetCertificate")
           /\ \A card \in YubiKeys : sessions[p][card] = 0

\* The slot holds a key the device attests and a marker certificate whose
\* public key is another one.
Tampered(slot) ==
    slot.attestable /\ HasMarker(slot.cert) /\ slot.cert.pub # slot.key

\* getPrivateKey has returned in the call r.
LookedUp(r) ==
    (Provisioning(r) \/ Decoding(r)) /\ r.fn # "getPrivateKey"
    /\ (r.getErr # NoErr \/ r.verified)

\* C8 as stated: a lookup of a slot whose marker certificate carries a public
\* key other than the attested one fails with the mismatch error.
C8_TamperedSlotGivesMismatch ==
    \A p \in procs :
        LET r == proc[p]
        IN (LookedUp(r) /\ Tampered(r.seen) /\ ~r.getFaulted)
           => r.getErr = ErrMismatch

\* C8 amended: such a lookup returns no handle; when no device call of it
\* fails its error is the mismatch error if the certificate's key is of a
\* type with an Equal method, and the bad-parameter error if it is not.
C8_TamperedSlotIsRefused ==
    \A p \in procs :
        LET r == proc[p]
        IN (LookedUp(r) /\ Tampered(r.seen))
           => /\ r.getErr # NoErr
              /\ Decoding(r) => r.priv = NoHandle /\ r.err = r.getErr
              /\ ~r.getFaulted
                 => r.getErr = IF r.seen.cert.pub.alg = "unknown"
                               THEN ErrUnsupportedKey ELSE ErrMismatch

C8_Witness ==
    \E p \in procs :
        LET r == proc[p]
        IN /\ Decoding(r) /\ Returned(r) /\ Tampered(r.seen)
           /\ r.seen.cert.pub = ForeignKey
           /\ r.err = ErrMismatch /\ r.priv = NoHandle

\* C9: getPrivateKey asks for an attestation only of a slot whose stored
\* certificate carries the marker, and returns a handle only when the
\* marker is there, the attestation verified and the certificate's public
\* key is the attested key of the slot, which is the handle's key.
C9_HandleOnlyAfterAllChecks ==
    \A p \in procs :
        LET r == proc[p]
        IN (Provisioning(r) \/ Decoding(r))
           => /\ r.nAttest > 0 => HasMarker(r.seen.cert)
              /\ r.verified => r.nAttest = 1
              /\ (Returned(r) /\ r.priv # NoHandle /\ r.getErr = NoErr)
                 => /\ HasMarker(r.seen.cert)
                    /\ r.seen.attestable
                    /\ r.nAttest = 1 /\ r.verified
                    /\ r.seen.cert.pub = r.seen.key
                    /\ r.priv.pub = r.seen.key
                    /\ r.post = r.seen

C9_Witness ==
    \E p \in procs :
        LET r == proc[p]
        IN /\ Decoding(r) /\ Returned(r) /\ r.priv # NoHandle
           /\ r.verified /\ r.priv.pub = r.seen.key

\* The keys of the slots parsePIVSlot knows.
SlotEnumeration == {154, 156, 158, 157} \cup (130..149)

\* C10: the descriptor keyPEM writes for a handle decodes to the handle's
\* serial number and slot key; a descriptor whose slot key is no slot fails
\* with the bad-parameter error before the tokens are listed and before any
\* piv.Open.
C10_DescriptorRoundTrip ==
    \A p \in procs :
        LET r == proc[p]
        IN Decoding(r)
           => /\ r.from # NoHandle
                 => /\ r.keyData.ok
                    /\ r.keyData.SerialNumber = r.from.yubiKey.serialNumber
                    /\ r.keyData.SlotKey = r.from.pivSlot.Key
                    /\ r.pivSlot = r.from.pivSlot
              /\ (r.keyData.ok /\ r.keyData.SlotKey \notin SlotEnumeration)
                 => /\ Returned(r) /\ r.err = ErrNoSlot /\ r.priv = NoHandle
                    /\ r.nCards = 0 /\ r.nOpen = 0 /\ r.oAttempts = 0

C10_Witness ==
    \E p \in procs :
        LET r == proc[p]
        IN /\ Decoding(r) /\ Returned(r) /\ r.from # NoHandle
           /\ r.priv = r.from

\* C11: parsePIVSlot answers every slot key: for a key of the enumeration
\* (9a, 9c, 9e, 9d and the retired slots 82..95) it returns the slot with
\* that key, for every other key it returns the bad-parameter error and the
\* zero slot, never a slot of the enumeration.
C11_ParsePIVSlotPartition ==
    \A p \in procs :
        LET r == proc[p]
        IN r.top = "parsePIVSlot"
           => /\ Returned(r)
              /\ r.keyData.SlotKey \in SlotEnumeration
                 => r.err = NoErr /\ r.pivSlot.Key = r.keyData.SlotKey
              /\ r.keyData.SlotKey \notin SlotEnumeration
                 => r.err = ErrNoSlot /\ r.pivSlot = NoSlot

C11_Witness ==
    \E p \in procs :
        LET r == proc[p]
        IN /\ r.top = "parsePIVSlot" /\ Returned(r)
           /\ r.keyData.SlotKey = 65690
           /\ r.err = ErrNoSlot /\ r.pivSlot = NoSlot

\* C12: a provisioning request with touchRequired false reads and generates
\* in slot 9a with touch policy never, one with touchRequired true in slot
\* 9c with touch policy cached: the reuse check, the generation and the
\* returned handle are all of that one slot, and the key is generated under
\* that policy.
C12_TouchRequirementSelectsSlotAndPolicy ==
    \A p \in procs :
        LET r == proc[p]
            slot == IF r.touchRequired THEN SlotSignature ELSE SlotAuthentication
            policy == IF r.touchRequired THEN TouchPolicyCached ELSE TouchPolicyNever
        IN Provisioning(r)
           => /\ r.fn \in {"getPrivateKey", "generatePrivateKey"}
                 => r.pivSlot = slot /\ r.touchPolicy = policy
              /\ r.lookupSlot # 0 => r.lookupSlot = slot.Key
              /\ r.nGenerateKey > 0
                 => r.genSlot = slot.Key /\ r.genPolicy = policy
              /\ (Returned(r) /\ r.priv # NoHandle) => r.priv.pivSlot = slot

C12_Witness ==
    \E p \in procs :
        LET r == proc[p]
        IN /\ Provisioning(r) /\ Returned(r) /\ r.touchRequired
           /\ r.lookupSlot = 156 /\ r.nGenerateKey = 1
           /\ r.genSlot = 156 /\ r.genPolicy = TouchPolicyCached
           /\ r.priv.pivSlot = SlotSignature

\* C13: Sign holds no connection when it starts, signs on the device only
\* over a connection it opened itself in this call, on the token and slot of
\* its handle, and holds none when it has returned, with a signature or
\* with an error; Public returns the handle's public key and makes no device
\* call.
C13_SignOpensAndClosesItsOwnSession ==
    \A p \in procs :
        LET r == proc[p]
            held == sessions[p][r.y.card]
        IN /\ r.top = "Sign"
              => /\ r.y = r.priv.yubiKey /\ r.pivSlot = r.priv.pivSlot
                 /\ r.pc = "open" => held = 0
                 /\ r.pc = "SignDigest" => held = 1 /\ r.nOpen >= 1 /\ r.nSign = 0
                 /\ r.nSign > 0 => r.nSign = 1 /\ r.nOpen >= 1 /\ Returned(r)
                 /\ Returned(r)
                    => /\ \A card \in YubiKeys : sessions[p][card] = 0
                       /\ (r.out = "signature") = (r.err = NoErr)
           /\ r.top = "Public"
              => /\ Returned(r) /\ r.err = NoErr /\ r.pub = r.priv.pub
                 /\ r.nCards = 0 /\ r.nOpen = 0 /\ r.nSign = 0 /\ r.nAttest = 0
                 /\ r.post = SlotAt(slots, r.y.card, r.pivSlot.Key)

\* A Sign call that failed on the device after its open has closed.
C13_Witness ==
    \E p \in procs :
        LET r == proc[p]
        IN /\ r.top = "Sign" /\ Returned(r)
           /\ r.nOpen >= 1 /\ r.nSign = 1 /\ r.err = DeviceErr("Sign")
           /\ \A card \in YubiKeys : sessions[p][card] = 0

\* C14: a call in which a device operation failed returns to its caller an
\* error of the device's kind: the failure is not turned into an error of
\* another kind and is not dropped.
C14_DeviceErrorsKeepTheirKind ==
    \A p \in procs :
        LET r == proc[p]
        IN (Returned(r) /\ r.faulted) => r.err.kind = "Device"

\* C15: a process has at most one connection open on a token, on the token
\* of the function that is running, and asks for a connection only when it
\* holds none: through findYubiKey, newYubiKey, getPrivateKey and
\* generatePrivateKey of one call, and from one call to the next.
C15_AtMostOneSessionPerToken ==
    \A p \in procs : \A card \in YubiKeys :
        LET r == proc[p]
        IN /\ sessions[p][card] \in {0, 1}
           /\ sessions[p][card] = 1 => card = r.y.card
           /\ r.pc = "open" => sessions[p][card] = 0

\* generatePrivateKey holds the third connection of a provisioning request.
C15_Witness ==
    \E p \in procs :
        LET r == proc[p]
        IN /\ Provisioning(r) /\ r.pc = "SetCertificate" /\ r.nOpen >= 3
           /\ sessions[p][r.y.card] = 1

\* The attempts of one run of open: never more than 100, all before the
\* current one refused as busy, none once a connection is held; and a run
\* that returns the busy error has made exactly 100 attempts.
OpenIsBounded ==
    \A p \in procs :
        LET r == proc[p]
        IN /\ r.oAttempts <= 100
           /\ r.pc = "open"
              => /\ r.i < 100 /\ r.oAttempts = r.i /\ r.oBusy = r.i
                 /\ sessions[p][r.y.card] = 0
           /\ (Returned(r) /\ r.err = ErrBusy)
              => /\ r.oAttempts = 100 /\ r.oBusy = 100 /\ r.i = 100
                 /\ sessions[p][r.y.card] = 0

\* C16: open ends: it makes at most 100 attempts, goes on with the first
\* connection it is given, and after 100 busy refusals returns the busy
\* error; a process in open leaves it.
C16_OpenTerminatesWithin100Attempts ==
    /\ []OpenIsBounded
    /\ \A p \in {1} : (proc[p].pc = "open") ~> (proc[p].pc # "open")

\* The other program kept its connection through all 100 attempts.
C16_Witness ==
    \E p \in procs :
        LET r == proc[p]
        IN /\ Returned(r) /\ r.err = ErrBusy /\ r.oAttempts = 100
           /\ r.y.card \in extHeld

\* A step of a process that is not inside generatePrivateKey leaves every
\* slot of every token as it is and has no key generated.
LookupStepsKeepSlots ==
    \A p \in procs :
        (proc'[p] # proc[p] /\ proc[p].fn # "generatePrivateKey")
           => slots' = slots /\ nextKey' = nextKey

\* parseYubiKeyPrivateKeyData, Sign, GetAttestationCerts and Public never
\* enter generatePrivateKey, and a provisioning request whose reuse check
\* succeeded has not entered it and returns with the slot as it found it.
LookupNeverGenerates ==
    \A p \in procs :
        LET r == proc[p]
        IN /\ ~Provisioning(r)
              => /\ r.fn # "generatePrivateKey" /\ r.nGenerate = 0
                 /\ r.nGenerateKey = 0 /\ r.nSetCertificate = 0
           /\ (Provisioning(r) /\ r.verified /\ r.getErr = NoErr)
              => /\ r.nGenerate = 0 /\ r.nGenerateKey = 0
                 /\ r.nSetCertificate = 0
                 /\ Returned(r) /\ r.priv # NoHandle /\ r.post = r.pre

\* C17: the lookup path does not write to the token: no step of
\* getPrivateKey, parseYubiKeyPrivateKeyData, GetAttestationCerts or Sign
\* changes a slot, whatever the outcome, and a provisioning request whose
\* reuse check succeeds leaves the slot as it found it.
C17_LookupPathNeverMutates ==
    []LookupNeverGenerates /\ [][LookupStepsKeepSlots]_vars

C17_Witness ==
    \E p \in procs :
        LET r == proc[p]
        IN /\ Provisioning(r) /\ Returned(r) /\ r.verified /\ r.getErr = NoErr
           /\ r.pre.key # NoKey /\ HasMarker(r.pre.cert) /\ r.post = r.pre

\* C18: a provisioning request enters generatePrivateKey at most once and
\* looks the key up at most once; when a step of generatePrivateKey fails
\* (open, GenerateKey, the certificate, SetCertificate) the request returns
\* that error and no handle at once, without generating or verifying again.
C18_GenerationAttemptedAtMostOnce ==
    \A p \in procs :
        LET r == proc[p]
        IN Provisioning(r)
           => /\ r.nGenerate <= 1 /\ r.nGenerateKey <= 1
              /\ r.nSetCertificate <= 1 /\ r.nAttest <= 1
              /\ r.nGenerateKey > 0 => r.nGenerate = 1
              /\ r.genFaulted
                 => /\ Returned(r) /\ r.priv = NoHandle
                    /\ r.err.kind = "Device"
                    /\ r.nGenerate = 1 /\ r.nSetCertificate = 0

C18_Witness ==
    \E p \in procs :
        LET r == proc[p]
        IN /\ Provisioning(r) /\ Returned(r) /\ r.genFaulted
           /\ r.nGenerateKey = 1 /\ r.err = DeviceErr("CreateCertificate")
           /\ r.priv = NoHandle

\* The key now in the slot of the handle h.
SlotKeyOf(h) == SlotAt(slots, h.yubiKey.card, h.pivSlot.Key).key

\* C19: with two processes provisioning the same token, the token has one
\* connection open at a time, a process starts generatePrivateKey only
\* after its own reuse check failed, and nothing else orders the two: a
\* handle a request has returned differs from the key in its slot only when
\* a later GenerateKey, of the other request, has replaced that key.  The
\* state in which that has happened is C19_Witness.
C19_SessionsExcludeButSlotsAreNotLocked ==
    /\ \A card \in YubiKeys :
          \A p, q \in procs :
             (sessions[p][card] > 0 /\ sessions[q][card] > 0) => p = q
    /\ \A p \in procs :
          LET r == proc[p]
          IN /\ r.nGenerate > 0 => r.getErr # NoErr
             /\ (Returned(r) /\ r.priv # NoHandle)
                => \/ r.priv.pub = SlotKeyOf(r.priv)
                   \/ /\ SlotKeyOf(r.priv).id > r.priv.pub.id
                      /\ nextKey >= 2

\* Both requests found the slot empty and generated; the one that returned
\* first holds a handle whose key is no longer the key of the slot.
C19_Witness ==
    \E p, q \in procs :
        LET r == proc[p]
            o == proc[q]
        IN /\ p # q
           /\ Provisioning(r) /\ Provisioning(o)
           /\ r.touchRequired = o.touchRequired
           /\ r.pre = EmptySlot /\ o.pre = EmptySlot
           /\ r.getErr = ErrSlotEmpty /\ o.getErr = ErrSlotEmpty
           /\ r.nGenerateKey = 1 /\ o.nGenerateKey = 1
           /\ Returned(r) /\ r.err = NoErr /\ r.priv # NoHandle
           /\ r.priv.pub # SlotKeyOf(r.priv)
           /\ SlotKeyOf(r.priv) = o.pub

\* The slot holds a key and no certificate, or a certificate of another key.
Partial(slot) ==
    slot.key # NoKey /\ (~slot.cert.present \/ slot.cert.pub # slot.key)

\* C20: a generatePrivateKey that fails after GenerateKey returns no handle
\* and leaves the new key under the certificate that was there (none, or
\* that of the old key); a lookup of a slot in that state fails, with
\* "slot empty" or the mismatch error when no device call fails; and every
\* handle getPrivateKey or generatePrivateKey returns carries the key that
\* is in the slot, under its marker certificate, when it is returned.
C20_PartialGenerationIsNeverReused ==
    \A p \in procs :
        LET r == proc[p]
        IN /\ (Provisioning(r) /\ Returned(r)
                 /\ r.nGenerateKey = 1 /\ r.nSetCertificate = 0)
              => /\ r.priv = NoHandle /\ r.err # NoErr
                 /\ r.post.key = r.pub /\ r.post.cert = r.pre.cert
                 /\ Partial(r.post)
           /\ (LookedUp(r) /\ Partial(r.seen))
              => /\ r.getErr # NoErr
                 /\ ~r.getFaulted => r.getErr \in {ErrSlotEmpty, ErrMismatch}
                 /\ Decoding(r) => r.priv = NoHandle
           /\ ((Provisioning(r) \/ Decoding(r)) /\ Returned(r) /\ r.priv # NoHandle)
              => /\ r.priv.pub = r.post.key
                 /\ r.post.cert.pub = r.post.key
                 /\ HasMarker(r.post.cert)

\* A lookup met the certificate of the key an earlier, completed
\* generation made, over the key of a later generation that failed.
C20_Witness ==
    \E p \in procs :
        LET r == proc[p]
        IN /\ LookedUp(r) /\ Returned(r) /\ Decoding(r)
           /\ Partial(r.seen) /\ HasMarker(r.seen.cert)
           /\ r.seen.cert.pub.id >= 1 /\ r.seen.key.id > r.seen.cert.pub.id
           /\ r.getErr = ErrMismatch /\ r.priv = NoHandle

====
